---- MODULE Spec2Model ----
(***************************************************************************)
(* k8sx: search of pods and services by IP or by name across the contexts  *)
(* of a kubeconfig and the namespaces of each context.                     *)
(*                                                                         *)
(* Strings the code inspects character by character (the query, pod names, *)
(* IP addresses) are tuples of one-character strings, so that              *)
(* strings.Contains and net.ParseIP are computed, not assumed.             *)
(***************************************************************************)
EXTENDS Integers, Sequences, FiniteSets, TLC

(***************************************************************************)
(* Bounds of the model.                                                    *)
(***************************************************************************)
\* Most external calls (client construction, list calls) that fail in one run.
MaxFaults == 2

(***************************************************************************)
(* Strings.                                                                *)
(***************************************************************************)
Dotted(a, b, c, d) == <<a, ".", b, ".", c, ".", d>>

IP1 == Dotted("1", "0", "0", "1")
IP2 == Dotted("1", "0", "0", "2")
IP3 == Dotted("1", "0", "0", "3")
IPHost == Dotted("9", "0", "0", "1")
IPSvc == Dotted("5", "0", "0", "1")
IPExt == Dotted("7", "0", "0", "1")
IPNone == Dotted("8", "8", "8", "8")

DigitVal(ch) ==
  CASE ch = "0" -> 0 [] ch = "1" -> 1 [] ch = "2" -> 2 [] ch = "3" -> 3
    [] ch = "4" -> 4 [] ch = "5" -> 5 [] ch = "6" -> 6 [] ch = "7" -> 7
    [] ch = "8" -> 8 [] ch = "9" -> 9 [] OTHER -> -1

\* The fields of s between the dots, left to right.
RECURSIVE SplitDots(_, _, _)
SplitDots(s, i, cur) ==
  IF i > Len(s) THEN <<cur>>
  ELSE IF s[i] = "." THEN <<cur>> \o SplitDots(s, i + 1, <<>>)
  ELSE SplitDots(s, i + 1, Append(cur, s[i]))

RECURSIVE FieldValue(_, _, _)
FieldValue(f, i, acc) ==
  IF i > Len(f) THEN acc ELSE FieldValue(f, i + 1, acc * 10 + DigitVal(f[i]))

\* One decimal field of a dotted quad: 1 to 3 digits, no leading zero, at most 255.
ValidField(f) ==
  /\ Len(f) >= 1
  /\ Len(f) <= 3
  /\ \A i \in 1..Len(f) : DigitVal(f[i]) >= 0
  /\ (Len(f) > 1 => f[1] # "0")
  /\ FieldValue(f, 1, 0) <= 255

\* The dotted-quad form of net.ParseIP: four decimal fields.
ParseIPv4(ip) ==
  LET fields == SplitDots(ip, 1, <<>>)
  IN  /\ Len(fields) = 4
      /\ \A i \in 1..4 : ValidField(fields[i])

HexDigits ==
  {"0", "1", "2", "3", "4", "5", "6", "7", "8", "9",
   "a", "b", "c", "d", "e", "f", "A", "B", "C", "D", "E", "F"}

\* The number of hex digits of s from position p on.
RECURSIVE HexRun(_, _)
HexRun(s, p) ==
  IF p <= Len(s) /\ s[p] \in HexDigits THEN 1 + HexRun(s, p + 1) ELSE 0

\* The end of the colon form: all 16 bytes are written and there is no "::",
\* or fewer are and a "::" stands for the rest.
Expands(i, ellipsis) == IF i < 16 THEN ellipsis ELSE ~ellipsis

\* The loop of the colon form of net.ParseIP over the groups of s from
\* position p on; i bytes of the address are written, ellipsis tells whether
\* a "::" was met.  A group has 1 to 4 hex digits; a group followed by a dot
\* starts a trailing dotted quad, which takes 4 bytes.
RECURSIVE ParseGroups(_, _, _, _)
ParseGroups(s, p, i, ellipsis) ==
  IF i >= 16 THEN FALSE
  ELSE
    LET off == HexRun(s, p)
        q == p + off
    IN  IF off = 0 \/ off > 4 THEN FALSE
        ELSE IF q <= Len(s) /\ s[q] = "."
        THEN /\ (ellipsis \/ i = 12)
             /\ i + 4 <= 16
             /\ ParseIPv4(SubSeq(s, p, Len(s)))
             /\ Expands(i + 4, ellipsis)
        ELSE IF q > Len(s) THEN Expands(i + 2, ellipsis)
        ELSE IF s[q] # ":" \/ q = Len(s) THEN FALSE
        ELSE IF s[q + 1] = ":"
        THEN IF ellipsis THEN FALSE
             ELSE IF q + 1 = Len(s) THEN Expands(i + 2, TRUE)
             ELSE ParseGroups(s, q + 2, i + 2, TRUE)
        ELSE ParseGroups(s, q + 1, i + 2, ellipsis)

\* The colon form of net.ParseIP; a zone ("%eth0") makes ParseIP return nil.
ParseIPv6(ip) ==
  IF \E k \in DOMAIN ip : ip[k] = "%" THEN FALSE
  ELSE IF Len(ip) >= 2 /\ ip[1] = ":" /\ ip[2] = ":"
  THEN Len(ip) = 2 \/ ParseGroups(ip, 3, 0, TRUE)
  ELSE ParseGroups(ip, 1, 0, FALSE)

\* The first of ".", ":" and "%" in s from position p on, "" without any:
\* it picks the form net.ParseIP parses.
RECURSIVE FirstSeparator(_, _)
FirstSeparator(s, p) ==
  IF p > Len(s) THEN ""
  ELSE IF s[p] \in {".", ":", "%"} THEN s[p]
  ELSE FirstSeparator(s, p + 1)

\* net.ParseIP(ip) != nil
ValidateIP_IPv4Only(ip) == ParseIPv4(ip)

ValidateIP(ip) ==
  CASE FirstSeparator(ip, 1) = "." -> ParseIPv4(ip)
    [] FirstSeparator(ip, 1) = ":" -> ParseIPv6(ip)
    [] OTHER -> FALSE

\* strings.Contains(s, sub)
Contains(s, sub) ==
  \E i \in 1..(Len(s) - Len(sub) + 1) : SubSeq(s, i, i + Len(sub) - 1) = sub

(***************************************************************************)
(* The kubeconfig and the clusters behind it.                              *)
(***************************************************************************)
Contexts == {"c1", "c2"}

\* The answer of the namespace list call of each context, in API order.
ApiNamespaces(c) == IF c = "c1" THEN <<"n1", "n2">> ELSE <<"n2", "n3">>

Pod(name, ns, podIP, hostIP, owners) ==
  [Name |-> name, Namespace |-> ns, PodIP |-> podIP, HostIP |-> hostIP,
   OwnerReferences |-> owners]

Svc(name, ns, clusterIP, externalIPs, type, ingress) ==
  [Name |-> name, Namespace |-> ns, ClusterIP |-> clusterIP,
   ExternalIPs |-> externalIPs, Type |-> type, Ingress |-> ingress]

Owner(kind, name) == [Kind |-> kind, Name |-> name]

\* The pods a successful pod list call of (context, namespace) returns.
FixturePods(c, ns) ==
  CASE c = "c1" /\ ns = "n1" ->
         << Pod(<<"a", "b">>, "n1", IP1, IPHost, <<Owner("ReplicaSet", "rs1")>>),
            Pod(<<"b", "a">>, "n1", IP2, IPHost, <<>>) >>
    [] c = "c1" /\ ns = "n2" ->
         << Pod(<<"A", "b">>, "n2", IP3, IP1, <<Owner("DaemonSet", "ds1")>>) >>
    [] c = "c2" /\ ns = "n2" ->
         << Pod(<<"b", "a", "b">>, "n2", IP2, IPHost, <<>>) >>
    [] c = "c2" /\ ns = "n3" ->
         << Pod(<<"a", "b">>, "n3", IP1, IP3,
                <<Owner("ReplicaSet", "rs3"), Owner("DaemonSet", "ds3")>>) >>
    [] OTHER -> <<>>

\* The services a successful service list call of (context, namespace) returns.
FixtureSvcs(c, ns) ==
  CASE c = "c1" /\ ns = "n1" ->
         << Svc("s1", "n1", IPSvc, <<IPExt, IP3>>, "ClusterIP", <<IP1>>) >>
    [] c = "c2" /\ ns = "n2" ->
         << Svc("s2", "n2", IP2, <<>>, "LoadBalancer", <<IPExt, IP1>>) >>
    [] c = "c2" /\ ns = "n3" ->
         << Svc("s3", "n3", IPSvc, <<IP1>>, "NodePort", <<>>) >>
    [] OTHER -> <<>>

\* The owner references of the ReplicaSets other than rs1 of (c1, n1).
FixtureReplicaSets(c, ns, name) ==
  CASE c = "c2" /\ ns = "n3" /\ name = "rs3" ->
         << Owner("Rollout", "r3") >>
    [] OTHER -> <<>>

(***************************************************************************)
(* State.                                                                  *)
(***************************************************************************)
VARIABLES
  pc,                 \* position of the running command
  mode,               \* "ip" or "name": the search path taken
  query,              \* the query string
  nsFlag,             \* the namespace list given by the caller (--namespaces)
  contextName,        \* the --context value of a single-context search
  currentContext,     \* current-context of the kubeconfig
  namespaces,         \* the list handed to SearchBy...AllContexts
  contexts,           \* GetContexts(config), in the order of this run
  ci,                 \* index of the context being visited
  namespacesToSearch, \* the namespaces of the context being visited
  ni,                 \* index of the namespace being searched
  results,            \* the result list of SearchBy...AllContexts
  resultsNil,         \* TRUE when that list is nil
  found,              \* pods and services of a single-context search
  err,                \* the error the command returns ("none": nil)
  log,                \* every external call issued so far, with its outcome
  scopeLog,           \* every SearchByIP / SearchByName call, with its return
  extraPods,          \* further pods listed in namespace n1 of context c1
  extraSvcs,          \* further services listed there
  cancelled,          \* TRUE once the deadline of the all-contexts search expired
  rsOwners,           \* owner references of ReplicaSet rs1 of (c1, n1)
  resolveLog,         \* every GetDeploymentByReplicaSet call, with its return
  summary             \* the lines of the summary the command printed

vars == << pc, mode, query, nsFlag, contextName, currentContext, namespaces,
           contexts, ci, namespacesToSearch, ni, results, resultsNil, found,
           err, log, scopeLog, extraPods, extraSvcs,
                  cancelled, rsOwners, resolveLog, summary >>

(***************************************************************************)
(* External calls and their outcomes.                                      *)
(***************************************************************************)
\* A list call succeeds, is refused (403 / 401) or fails otherwise.
Outcomes == {"ok", "forbidden", "unauthorized", "other"}
\* Loading the kubeconfig and building a client succeed or fail.
LocalOutcomes == {"ok", "other"}

Call(op, c, ns, outcome, phase) ==
  [op |-> op, ctx |-> c, ns |-> ns, outcome |-> outcome, phase |-> phase]

\* A call made with a context whose deadline expired fails with the context's
\* error ("canceled"), which is neither forbidden nor unauthorized.
CtxOutcomes(S) == IF cancelled THEN {"canceled"} ELSE S

\* The calls that failed for a reason of their own.
Failed(calls) ==
  Cardinality({i \in DOMAIN calls : calls[i].outcome \notin {"ok", "canceled"}})

\* The run may still take the failures of calls.
WithinFaults(calls) == Failed(log) + Failed(calls) <= MaxFaults

ListedPods(c, ns) ==
  FixturePods(c, ns) \o (IF c = "c1" /\ ns = "n1" THEN extraPods ELSE <<>>)

ListedSvcs(c, ns) ==
  FixtureSvcs(c, ns) \o (IF c = "c1" /\ ns = "n1" THEN extraSvcs ELSE <<>>)

(***************************************************************************)
(* pkg: the per-client search.                                             *)
(***************************************************************************)
IsPermissionError_Any(o) == TRUE

IsPermissionError_None(o) == FALSE

IsPermissionError(o) == o = "forbidden" \/ o = "unauthorized"

getOwnerInfo(pod) ==
  IF Len(pod.OwnerReferences) = 0 THEN <<"", "">>
  ELSE <<pod.OwnerReferences[1].Kind, pod.OwnerReferences[1].Name>>

PodInfo(pod) ==
  LET owner == getOwnerInfo(pod)
  IN  [Name |-> pod.Name, Namespace |-> pod.Namespace, PodIP |-> pod.PodIP,
       HostIP |-> pod.HostIP, OwnerKind |-> owner[1], OwnerName |-> owner[2]]

ServiceInfo(svc) ==
  [Name |-> svc.Name, Namespace |-> svc.Namespace, ClusterIP |-> svc.ClusterIP,
   ExternalIPs |-> svc.ExternalIPs, Type |-> svc.Type]

PodMatchesIP_PodIPOnly(pod, ip) == pod.PodIP = ip

PodMatchesIP(pod, ip) == pod.PodIP = ip \/ pod.HostIP = ip

ServiceMatchesIP_AnyType(svc, ip) ==
  \/ svc.ClusterIP = ip
  \/ \E i \in DOMAIN svc.ExternalIPs : svc.ExternalIPs[i] = ip
  \/ \E i \in DOMAIN svc.Ingress : svc.Ingress[i] = ip

ServiceMatchesIP(svc, ip) ==
  \/ svc.ClusterIP = ip
  \/ \E i \in DOMAIN svc.ExternalIPs : svc.ExternalIPs[i] = ip
  \/ /\ svc.Type = "LoadBalancer"
     /\ \E i \in DOMAIN svc.Ingress : svc.Ingress[i] = ip

HasPrefix(s, sub) == Len(sub) <= Len(s) /\ SubSeq(s, 1, Len(sub)) = sub

PodMatchesName_Prefix(pod, name) == HasPrefix(pod.Name, name)

PodMatchesName(pod, name) == Contains(pod.Name, name)

MatchedPodsByIP(c, ns, ip) ==
  LET Test(p) == PodMatchesIP(p, ip)
      sel == SelectSeq(ListedPods(c, ns), Test)
  IN  [i \in 1..Len(sel) |-> PodInfo(sel[i])]

MatchedSvcsByIP(c, ns, ip) ==
  LET Test(s) == ServiceMatchesIP(s, ip)
      sel == SelectSeq(ListedSvcs(c, ns), Test)
  IN  [i \in 1..Len(sel) |-> ServiceInfo(sel[i])]

MatchedPodsByName(c, ns, name) ==
  LET Test(p) == PodMatchesName(p, name)
      sel == SelectSeq(ListedPods(c, ns), Test)
  IN  [i \in 1..Len(sel) |-> PodInfo(sel[i])]

\* The loop of SearchByIP from namespace i on; oc[i] holds the outcomes of the
\* two list calls of namespace i, acc what the earlier namespaces gave.
RECURSIVE SearchByIPFrom(_, _, _, _, _, _, _)
SearchByIPFrom(c, nss, ip, oc, phase, i, acc) ==
  IF i > Len(nss)
  THEN [pods |-> acc.pods, services |-> acc.services, err |-> "none",
        calls |-> acc.calls]
  ELSE
    LET ns == nss[i]
        afterPods == Append(acc.calls, Call("ListPods", c, ns, oc[i].pod, phase))
        afterSvcs == Append(afterPods, Call("ListServices", c, ns, oc[i].svc, phase))
        pods1 == acc.pods \o MatchedPodsByIP(c, ns, ip)
    IN  IF oc[i].pod # "ok"
        THEN IF IsPermissionError(oc[i].pod)
             THEN SearchByIPFrom(c, nss, ip, oc, phase, i + 1,
                                 [acc EXCEPT !.calls = afterPods])
             ELSE [pods |-> <<>>, services |-> <<>>,
                   err |-> "failed to list pods", calls |-> afterPods]
        ELSE IF oc[i].svc # "ok"
        THEN IF IsPermissionError(oc[i].svc)
             THEN SearchByIPFrom(c, nss, ip, oc, phase, i + 1,
                                 [pods |-> pods1, services |-> acc.services,
                                  calls |-> afterSvcs])
             ELSE [pods |-> <<>>, services |-> <<>>,
                   err |-> "failed to list services", calls |-> afterSvcs]
        ELSE SearchByIPFrom(c, nss, ip, oc, phase, i + 1,
                            [pods |-> pods1,
                             services |-> acc.services \o MatchedSvcsByIP(c, ns, ip),
                             calls |-> afterSvcs])

SearchByIP(c, nss, ip, oc, phase) ==
  SearchByIPFrom(c, nss, ip, oc, phase, 1,
                 [pods |-> <<>>, services |-> <<>>, calls |-> <<>>])

RECURSIVE SearchByNameFrom(_, _, _, _, _, _, _)
SearchByNameFrom(c, nss, name, oc, phase, i, acc) ==
  IF i > Len(nss)
  THEN [pods |-> acc.pods, services |-> <<>>, err |-> "none", calls |-> acc.calls]
  ELSE
    LET ns == nss[i]
        afterPods == Append(acc.calls, Call("ListPods", c, ns, oc[i].pod, phase))
    IN  IF oc[i].pod # "ok"
        THEN IF IsPermissionError(oc[i].pod)
             THEN SearchByNameFrom(c, nss, name, oc, phase, i + 1,
                                   [acc EXCEPT !.calls = afterPods])
             ELSE [pods |-> <<>>, services |-> <<>>,
                   err |-> "failed to list pods", calls |-> afterPods]
        ELSE SearchByNameFrom(c, nss, name, oc, phase, i + 1,
                              [pods |-> acc.pods \o MatchedPodsByName(c, ns, name),
                               calls |-> afterPods])

SearchByName(c, nss, name, oc, phase) ==
  SearchByNameFrom(c, nss, name, oc, phase, 1, [pods |-> <<>>, calls |-> <<>>])

\* The outcomes of the list calls one namespace can see: the service list is
\* called only after a successful pod list, and only by the IP search.
ScopeOutcomes(m) ==
  { o \in [pod : Outcomes, svc : Outcomes] :
      (o.pod # "ok" \/ m = "name") => o.svc = "ok" }

\* The same for a scope of the fan-out, whose calls share the deadline.
FanoutScopeOutcomes(m) ==
  IF cancelled THEN {[pod |-> "canceled", svc |-> "ok"]} ELSE ScopeOutcomes(m)

Search(m, c, nss, q, oc, phase) ==
  IF m = "ip" THEN SearchByIP(c, nss, q, oc, phase)
  ELSE SearchByName(c, nss, q, oc, phase)

\* The owner references of ReplicaSet name of (c, ns).
ReplicaSetOwners(c, ns, name) ==
  IF c = "c1" /\ ns = "n1" /\ name = "rs1" THEN rsOwners
  ELSE FixtureReplicaSets(c, ns, name)

\* The loop of GetDeploymentByReplicaSet over the owner references, from
\* reference i on.
FirstDeployment_FirstOwner(owners, i) ==
  [name |-> owners[1].Name, err |-> "none"]

RECURSIVE FirstDeployment(_, _)
FirstDeployment(owners, i) ==
  IF i > Len(owners)
  THEN [name |-> "", err |-> "no deployment found for replicaset"]
  ELSE IF owners[i].Kind = "Deployment"
  THEN [name |-> owners[i].Name, err |-> "none"]
  ELSE FirstDeployment(owners, i + 1)

\* GetDeploymentByReplicaSet of a client of context c; o is the outcome of
\* the Get call.
GetDeploymentByReplicaSet(c, ns, name, o) ==
  IF o # "ok" THEN [name |-> "", err |-> "failed to get replicaset"]
  ELSE IF Len(ReplicaSetOwners(c, ns, name)) = 0
  THEN [name |-> "", err |-> "replicaset has no owner"]
  ELSE FirstDeployment(ReplicaSetOwners(c, ns, name), 1)

ResolveRecord(c, ns, name, o) ==
  LET r == GetDeploymentByReplicaSet(c, ns, name, o)
  IN  [ctx |-> c, ns |-> ns, rs |-> name, outcome |-> o,
       name |-> r.name, err |-> r.err]

(***************************************************************************)
(* cmd: the all-contexts commands.                                         *)
(***************************************************************************)
Permutations2(S) ==
  { p \in [1..Cardinality(S) -> S] : \A i, j \in DOMAIN p : i # j => p[i] # p[j] }

\* The precondition of the command on its query.
QueryValid_Unchecked(m, q) == TRUE

QueryValid(m, q) == IF m = "ip" THEN ValidateIP(q) ELSE q # <<>>

QueryError(m) ==
  IF m = "ip" THEN "invalid IP address" ELSE "name cannot be empty"

\* len(namespaces) == 0 in SearchK8sBy...AllContexts: discovery is attempted.
DiscoveryNeeded_Always(nss) == TRUE

DiscoveryNeeded(nss) == Len(nss) = 0

\* len(namespaces) > 0 in SearchBy...AllContexts: the given list is used.
UseProvided_Always(nss) == TRUE

UseProvided(nss) == Len(nss) > 0

\* The error SearchBy...AllContexts returns after LoadKubeConfig.
LoadError_Swallowed(o) == "none"

LoadError(o) == IF o = "ok" THEN "none" ELSE "failed to load kubeconfig"

\* Whether the return of one scope's search is appended to the results.
ScopeIncluded_Both(r) == r.err = "none" /\ Len(r.pods) > 0 /\ Len(r.services) > 0

ScopeIncluded_Always(r) == r.err = "none"

ScopeIncluded_Failed(r) == Len(r.pods) > 0 \/ Len(r.services) > 0 \/ r.err # "none"

ScopeIncluded(r) == r.err = "none" /\ (Len(r.pods) > 0 \/ Len(r.services) > 0)

ScopedResult(c, ns, r) ==
  [Context |-> c, Namespace |-> ns, Pods |-> r.pods, Services |-> r.services]

\* results = append(results, ...): the entry goes to the end of the list.
\* for _, nsName := range namespacesToSearch: the turn after the search of
\* namespace i returned r is that of the next namespace, whatever r is.
NextNamespace_RetryFailed(i, r) == IF r.err # "none" THEN i ELSE i + 1

NextNamespace(i, r) == i + 1

\* client.Namespaces = []string{nsName}: the client searches the namespace
\* of this turn of the loop and no other.
ClientNamespaces_First(nss, k) == <<nss[1]>>

ClientNamespaces(nss, k) == <<nss[k]>>

AppendResult_Front(rs, e) == <<e>> \o rs

AppendResult(rs, e) == Append(rs, e)

ScopeRecord(m, c, nss, oc, r) ==
  [mode |-> m, ctx |-> c, nss |-> nss, oc |-> oc, pods |-> r.pods,
   services |-> r.services, err |-> r.err]

\* rootCmd / searchCmd RunE: the query picks the search path.
RunE ==
  /\ pc = "start"
  /\ mode' = IF ValidateIP(query) THEN "ip" ELSE "name"
  /\ pc' = "cmd"
  /\ UNCHANGED << query, nsFlag, contextName, currentContext, namespaces, contexts,
                  ci, namespacesToSearch, ni, results, resultsNil, found, err,
                  log, scopeLog, extraPods, extraSvcs,
                  cancelled, rsOwners, resolveLog, summary >>

\* SearchK8sByIPAllContexts / SearchK8sByNameAllContexts called as a library.
CallAllContexts ==
  /\ pc = "start"
  /\ \E m \in {"ip", "name"} : mode' = m
  /\ pc' = "cmd"
  /\ UNCHANGED << query, nsFlag, contextName, currentContext, namespaces, contexts,
                  ci, namespacesToSearch, ni, results, resultsNil, found, err,
                  log, scopeLog, extraPods, extraSvcs,
                  cancelled, rsOwners, resolveLog, summary >>

\* The head of SearchK8sBy...AllContexts: the query is checked first.
CheckQuery ==
  /\ pc = "cmd"
  /\ IF QueryValid(mode, query)
     THEN /\ pc' = IF DiscoveryNeeded(nsFlag) THEN "discover" ELSE "load"
          /\ err' = err
     ELSE /\ pc' = "done"
          /\ err' = QueryError(mode)
  /\ namespaces' = nsFlag
  /\ UNCHANGED << mode, query, nsFlag, contextName, currentContext, contexts, ci,
                  namespacesToSearch, ni, results, resultsNil, found, log,
                  scopeLog, extraPods, extraSvcs,
                  cancelled, rsOwners, resolveLog, summary >>

\* The namespaces of api whose probe (list one pod) succeeded, in order.
RECURSIVE Accessible(_, _, _)
Accessible(api, probe, i) ==
  IF i > Len(api) THEN <<>>
  ELSE (IF probe[i] = "ok" THEN <<api[i]>> ELSE <<>>) \o Accessible(api, probe, i + 1)

\* GetAccessibleNamespaces(kubeconfigPath, ""): a client of the current
\* context, its namespace list, one probe per namespace.
GetAccessibleNamespaces ==
  /\ pc = "discover"
  /\ LET c == currentContext
         api == ApiNamespaces(c)
     IN  \/ \E o \in LocalOutcomes \ {"ok"} :
              LET calls == <<Call("NewK8sClient", c, "", o, "discover")>>
              IN  /\ WithinFaults(calls)
                  /\ log' = log \o calls
                  /\ UNCHANGED namespaces
         \/ \E o \in Outcomes \ {"ok"} :
              LET calls == << Call("NewK8sClient", c, "", "ok", "discover"),
                              Call("ListNamespaces", c, "", o, "discover") >>
              IN  /\ WithinFaults(calls)
                  /\ log' = log \o calls
                  /\ UNCHANGED namespaces
         \/ \E probe \in [1..Len(api) -> Outcomes] :
              LET calls == << Call("NewK8sClient", c, "", "ok", "discover"),
                              Call("ListNamespaces", c, "", "ok", "discover") >>
                             \o [i \in 1..Len(api) |->
                                   Call("ProbePods", c, api[i], probe[i], "discover")]
                  accessible == Accessible(api, probe, 1)
              IN  /\ WithinFaults(calls)
                  /\ log' = log \o calls
                  /\ namespaces' = IF Len(accessible) > 0 THEN accessible
                                   ELSE namespaces
  /\ pc' = "load"
  /\ UNCHANGED << mode, query, nsFlag, contextName, currentContext, contexts, ci,
                  namespacesToSearch, ni, results, resultsNil, found, err,
                  scopeLog, extraPods, extraSvcs,
                  cancelled, rsOwners, resolveLog, summary >>

\* The head of SearchBy...AllContexts: LoadKubeConfig, then GetContexts, whose
\* order is that of a map iteration.
LoadContexts ==
  /\ pc = "load"
  /\ \E o \in LocalOutcomes :
       LET calls == <<Call("LoadKubeConfig", "", "", o, "fanout")>>
       IN  /\ WithinFaults(calls)
           /\ log' = log \o calls
           /\ err' = LoadError(o)
           /\ IF o = "ok"
              THEN /\ \E order \in Permutations2(Contexts) : contexts' = order
                   /\ resultsNil' = FALSE
                   /\ pc' = "context"
              ELSE /\ contexts' = contexts
                   /\ resultsNil' = TRUE
                   /\ pc' = "return"
  /\ results' = <<>>
  /\ ci' = 1
  /\ UNCHANGED << mode, query, nsFlag, contextName, currentContext, namespaces,
                  namespacesToSearch, ni, found, scopeLog, extraPods, extraSvcs,
                  cancelled, rsOwners, resolveLog, summary >>

\* The head of the loop over the contexts: a client for the context, then the
\* namespaces to search in it.
VisitContext ==
  /\ pc = "context"
  /\ ci <= Len(contexts)
  /\ LET c == contexts[ci]
     IN  \/ \E o \in LocalOutcomes \ {"ok"} :
              LET calls == <<Call("NewK8sClient", c, "", o, "fanout")>>
              IN  /\ WithinFaults(calls)
                  /\ log' = log \o calls
                  /\ ci' = ci + 1
                  /\ pc' = "context"
                  /\ UNCHANGED namespacesToSearch
         \/ /\ UseProvided(namespaces)
            /\ log' = Append(log, Call("NewK8sClient", c, "", "ok", "fanout"))
            /\ namespacesToSearch' = namespaces
            /\ ci' = ci
            /\ pc' = "scope"
         \/ /\ ~UseProvided(namespaces)
            /\ \E o \in CtxOutcomes(Outcomes) :
                 LET calls == << Call("NewK8sClient", c, "", "ok", "fanout"),
                                 Call("ListNamespaces", c, "", o, "fanout") >>
                 IN  /\ WithinFaults(calls)
                     /\ log' = log \o calls
                     /\ IF o = "ok"
                        THEN /\ namespacesToSearch' = ApiNamespaces(c)
                             /\ ci' = ci
                             /\ pc' = "scope"
                        ELSE /\ namespacesToSearch' = namespacesToSearch
                             /\ ci' = ci + 1
                             /\ pc' = "context"
  /\ ni' = 1
  /\ UNCHANGED << mode, query, nsFlag, contextName, currentContext, namespaces,
                  contexts, results, resultsNil, found, err, scopeLog,
                  extraPods, extraSvcs,
                  cancelled, rsOwners, resolveLog, summary >>

\* One turn of the loop over the namespaces: the client is set to the one
\* namespace, searched, and a non-empty return is appended.
SearchScope ==
  /\ pc = "scope"
  /\ ni <= Len(namespacesToSearch)
  /\ LET c == contexts[ci]
         ns == namespacesToSearch[ni]
         own == ClientNamespaces(namespacesToSearch, ni)
     IN  \E o \in FanoutScopeOutcomes(mode) :
           LET r == Search(mode, c, own, query, <<o>>, "fanout")
           IN  /\ WithinFaults(r.calls)
               /\ log' = log \o r.calls
               /\ scopeLog' = Append(scopeLog, ScopeRecord(mode, c, own, <<o>>, r))
               /\ results' = IF ScopeIncluded(r)
                             THEN AppendResult(results, ScopedResult(c, ns, r))
                             ELSE results
               /\ ni' = NextNamespace(ni, r)
  /\ UNCHANGED << pc, mode, query, nsFlag, contextName, currentContext, namespaces,
                  contexts, ci, namespacesToSearch, resultsNil, found, err,
                  extraPods, extraSvcs,
                  cancelled, rsOwners, resolveLog, summary >>

\* The loop over the namespaces is over: next context.
NextContext ==
  /\ pc = "scope"
  /\ ni > Len(namespacesToSearch)
  /\ ci' = ci + 1
  /\ pc' = "context"
  /\ UNCHANGED << mode, query, nsFlag, contextName, currentContext, namespaces,
                  contexts, namespacesToSearch, ni, results, resultsNil, found,
                  err, log, scopeLog, extraPods, extraSvcs,
                  cancelled, rsOwners, resolveLog, summary >>

\* The loop over the contexts is over: return results, nil.
ReturnResults ==
  /\ pc = "context"
  /\ ci > Len(contexts)
  /\ pc' = "return"
  /\ UNCHANGED << mode, query, nsFlag, contextName, currentContext, namespaces,
                  contexts, ci, namespacesToSearch, ni, results, resultsNil,
                  found, err, log, scopeLog, extraPods, extraSvcs,
                  cancelled, rsOwners, resolveLog, summary >>

\* The pods of the entries k.. of the result list in the order of display,
\* each with the context and the namespace of its entry.
RECURSIVE DisplayedPods(_)
DisplayedPods(k) ==
  IF k > Len(results) THEN <<>>
  ELSE [i \in 1..Len(results[k].Pods) |->
          [Context |-> results[k].Context, Namespace |-> results[k].Namespace,
           pod |-> results[k].Pods[i]]] \o DisplayedPods(k + 1)

\* pod.OwnerKind == "ReplicaSet": the display asks for the Deployment.
OwnerResolved_AnyOwner(pod) == pod.OwnerKind # ""

OwnerResolved(pod) == pod.OwnerKind = "ReplicaSet"

\* The Get call of a ReplicaSet succeeds or fails (not found, refused, ...):
\* its caller does not tell the errors apart.
GetOutcomes == {"ok", "other"}

\* What the display of one pod can meet: no call, a client that cannot be
\* built, or a client and the outcome of its Get call.
ResolveChoices(pod) ==
  IF ~OwnerResolved(pod) THEN {[client |-> "none", get |-> "none"]}
  ELSE {[client |-> o, get |-> "none"] : o \in LocalOutcomes \ {"ok"}}
         \cup {[client |-> "ok", get |-> g] : g \in CtxOutcomes(GetOutcomes)}

\* The calls and the resolver return of the display of one row that met o.
ResolveOne(d, o) ==
  LET client == Call("NewK8sClient", d.Context, "", o.client, "display")
      get == Call("GetReplicaSet", d.Context, d.pod.Namespace, o.get, "display")
  IN  IF o.client = "none" THEN [calls |-> <<>>, resolved |-> <<>>]
      ELSE IF o.client # "ok" THEN [calls |-> <<client>>, resolved |-> <<>>]
      ELSE [calls |-> <<client, get>>,
            resolved |-> <<ResolveRecord(d.Context, d.pod.Namespace,
                                         d.pod.OwnerName, o.get)>>]

\* The calls and the resolver returns the display of rows i.. can give.
RECURSIVE ResolveFrom(_, _)
ResolveFrom(rows, i) ==
  IF i > Len(rows) THEN {[calls |-> <<>>, resolved |-> <<>>]}
  ELSE { [calls |-> ResolveOne(rows[i], o).calls \o rest.calls,
          resolved |-> ResolveOne(rows[i], o).resolved \o rest.resolved] :
           o \in ResolveChoices(rows[i].pod), rest \in ResolveFrom(rows, i + 1) }

\* totalPods += len(result.Pods) over the entries from k on.
RECURSIVE TotalPods(_, _)
TotalPods(rs, k) ==
  IF k > Len(rs) THEN 0 ELSE Len(rs[k].Pods) + TotalPods(rs, k + 1)

\* totalServices += len(result.Services) over the entries from k on.
RECURSIVE TotalServices(_, _)
TotalServices(rs, k) ==
  IF k > Len(rs) THEN 0 ELSE Len(rs[k].Services) + TotalServices(rs, k + 1)

SummaryLine(label, n) == [label |-> label, n |-> n]

\* The summary printed after the tables; the name search prints no line
\* about services.
SummaryLines(m, rs) ==
  LET head == << SummaryLine("Total contexts searched", Len(rs)),
                 SummaryLine("Total pods found", TotalPods(rs, 1)) >>
  IN  IF m = "ip"
      THEN Append(head, SummaryLine("Total services found", TotalServices(rs, 1)))
      ELSE head

\* Back in SearchK8sBy...AllContexts: the error is returned, or the results
\* are displayed, the Deployment of every pod of a ReplicaSet being asked for
\* and the errors of that ignored.
Display ==
  /\ pc = "return"
  /\ IF err # "none"
     THEN UNCHANGED << log, resolveLog, summary >>
     ELSE /\ \E r \in ResolveFrom(DisplayedPods(1), 1) :
               /\ WithinFaults(r.calls)
               /\ log' = log \o r.calls
               /\ resolveLog' = resolveLog \o r.resolved
          /\ summary' = IF Len(results) = 0 THEN summary
                        ELSE SummaryLines(mode, results)
  /\ pc' = "done"
  /\ UNCHANGED << mode, query, nsFlag, contextName, currentContext, namespaces,
                  contexts, ci, namespacesToSearch, ni, results, resultsNil,
                  found, err, scopeLog, extraPods, extraSvcs, cancelled,
                  rsOwners >>

\* The deadline of context.WithTimeout expires while SearchBy...AllContexts
\* runs or before the display.
Cancel ==
  /\ pc \in {"load", "context", "scope", "return"}
  /\ ~cancelled
  /\ cancelled' = TRUE
  /\ UNCHANGED << pc, mode, query, nsFlag, contextName, currentContext,
                  namespaces, contexts, ci, namespacesToSearch, ni, results,
                  resultsNil, found, err, log, scopeLog, extraPods, extraSvcs,
                  rsOwners, resolveLog, summary >>

(***************************************************************************)
(* The all-contexts search of one query.                                   *)
(***************************************************************************)
\* Longest namespace list the caller gives.
MaxNamespaces == 2

FlagNames == {"n1", "n2"}

NamespaceFlags ==
  UNION { [1..n -> FlagNames] : n \in 0..MaxNamespaces }

Queries ==
  { IP1, <<>>, <<"a", "b">> }

Init ==
  /\ pc = "start"
  /\ mode = "none"
  /\ query \in Queries
  /\ nsFlag \in NamespaceFlags
  /\ contextName = ""
  \* current-context is read by namespace discovery only, which a given
  \* namespace list skips.
  /\ currentContext \in (IF nsFlag = <<>> THEN Contexts ELSE {"c1"})
  /\ namespaces = <<>>
  /\ contexts = <<>>
  /\ ci = 1
  /\ namespacesToSearch = <<>>
  /\ ni = 1
  /\ results = <<>>
  /\ resultsNil = TRUE
  /\ found = [pods |-> <<>>, services |-> <<>>]
  /\ err = "none"
  /\ log = <<>>
  /\ scopeLog = <<>>
  /\ extraPods = <<>>
  /\ extraSvcs = <<>>
  /\ cancelled = FALSE
  /\ rsOwners = <<Owner("Deployment", "d1")>>
  /\ resolveLog = <<>>
  /\ summary = <<>>

Next ==
  \/ RunE
  \/ CallAllContexts
  \/ CheckQuery
  \/ GetAccessibleNamespaces
  \/ LoadContexts
  \/ VisitContext
  \/ SearchScope
  \/ NextContext
  \/ ReturnResults
  \/ Display

Spec == Init /\ [][Next]_vars

(***************************************************************************)
(* cmd: the single-context commands, whose client holds the whole          *)
(* namespace list of the caller.                                           *)
(***************************************************************************)
\* An other error in the list calls of one namespace ends the search.
Aborts(o) == o.pod = "other" \/ (o.pod = "ok" /\ o.svc = "other")

\* The loop of SearchByIP / SearchByName gets as far as namespace i.
Reached(oc, i) == \A k \in 1..(i - 1) : ~Aborts(oc[k])

\* The outcomes of the list calls of a client of namespaces nss; a namespace
\* the loop does not get to has no calls.
ClientOutcomes(m, nss) ==
  { oc \in [1..Len(nss) -> ScopeOutcomes(m)] :
      \A i \in 1..Len(nss) : ~Reached(oc, i) => oc[i] = [pod |-> "ok", svc |-> "ok"] }

\* NewK8sClient: the empty context name stands for the current context.
ClientContext == IF contextName = "" THEN currentContext ELSE contextName

SingleContextSearch(m) ==
  /\ pc = "start"
  /\ mode' = m
  /\ IF ~QueryValid(m, query)
     THEN /\ err' = QueryError(m)
          /\ UNCHANGED << log, scopeLog, found >>
     ELSE \/ \E o \in LocalOutcomes \ {"ok"} :
               /\ log' = Append(log, Call("NewK8sClient", ClientContext, "", o, "single"))
               /\ err' = "failed to create client"
               /\ UNCHANGED << scopeLog, found >>
          \/ \E oc \in ClientOutcomes(m, nsFlag) :
               LET c == ClientContext
                   r == Search(m, c, nsFlag, query, oc, "single")
                   calls == <<Call("NewK8sClient", c, "", "ok", "single")>> \o r.calls
               IN  /\ WithinFaults(calls)
                   /\ log' = log \o calls
                   /\ scopeLog' = Append(scopeLog, ScopeRecord(m, c, nsFlag, oc, r))
                   /\ found' = [pods |-> r.pods, services |-> r.services]
                   /\ err' = r.err
  /\ pc' = "done"
  /\ UNCHANGED << query, nsFlag, contextName, currentContext, namespaces, contexts,
                  ci, namespacesToSearch, ni, results, resultsNil, extraPods,
                  extraSvcs,
                  cancelled, rsOwners, resolveLog, summary >>

SearchK8sByIP == SingleContextSearch("ip")

SearchK8sByName == SingleContextSearch("name")

\* Longest pod name and longest name query drawn.
MaxNameLen == 3
MaxQueryLen == 2

Letters == {"a", "b"}

Words(n) == UNION { [1..k -> Letters] : k \in 0..n }

\* One more pod of namespace n1 of context c1; its name is not that of a pod
\* already there.
ExtraPodChoices ==
  { <<>> } \cup
  { <<Pod(w, "n1", IP2, IPHost, <<>>)>> :
      w \in { v \in Words(MaxNameLen) :
                /\ Len(v) > 0
                /\ \A i \in DOMAIN FixturePods("c1", "n1") :
                     FixturePods("c1", "n1")[i].Name # v } }

\* One more service of namespace n1 of context c1.
ExtraSvcChoices ==
  { <<>> } \cup
  { <<Svc("x", "n1", cip, ext, type, ing)>> :
      cip \in {IP1, IPSvc},
      ext \in { <<>>, <<IP1>>, <<IPExt, IP1>> },
      type \in {"ClusterIP", "LoadBalancer"},
      ing \in { <<>>, <<IP1>>, <<IPExt, IP1>> } }

InitClient ==
  /\ pc = "start"
  /\ mode = "none"
  /\ \/ /\ query \in {IP1, IPExt, IPNone}
        /\ extraSvcs \in ExtraSvcChoices
        /\ extraPods = <<>>
     \/ /\ query \in Words(MaxQueryLen)
        /\ extraSvcs = <<>>
        /\ extraPods \in ExtraPodChoices
  /\ nsFlag \in NamespaceFlags
  \* The further pod or service lives in context c1, which a client of c2
  \* does not see.
  /\ contextName \in (IF extraPods = <<>> /\ extraSvcs = <<>> THEN {"", "c2"} ELSE {""})
  /\ currentContext = "c1"
  /\ namespaces = <<>>
  /\ contexts = <<>>
  /\ ci = 1
  /\ namespacesToSearch = <<>>
  /\ ni = 1
  /\ results = <<>>
  /\ resultsNil = TRUE
  /\ found = [pods |-> <<>>, services |-> <<>>]
  /\ err = "none"
  /\ log = <<>>
  /\ scopeLog = <<>>
  /\ cancelled = FALSE
  /\ rsOwners = <<Owner("Deployment", "d1")>>
  /\ resolveLog = <<>>
  /\ summary = <<>>

NextClient ==
  \/ SearchK8sByIP
  \/ SearchK8sByName

SpecClient == InitClient /\ [][NextClient]_vars

(***************************************************************************)
(* pkg: SearchBy...AllContexts as a function of the order GetContexts      *)
(* gives and of the outcomes of its calls: oc.client[c] and oc.nslist[c]   *)
(* are the outcomes of the client construction and of the namespace list   *)
(* call of context c, oc.scope[c][k] those of the list calls of the k-th   *)
(* namespace searched in c.                                                *)
(***************************************************************************)
\* The loop over the namespaces of context c, from namespace k on.
RECURSIVE SearchNamespacesFrom(_, _, _, _, _, _, _)
SearchNamespacesFrom(m, c, nss, q, oc, k, acc) ==
  IF k > Len(nss) THEN acc
  ELSE
    LET r == Search(m, c, ClientNamespaces(nss, k), q, <<oc[k]>>, "fanout")
    IN  SearchNamespacesFrom(m, c, nss, q, oc, k + 1,
          IF ScopeIncluded(r) THEN AppendResult(acc, ScopedResult(c, nss[k], r))
          ELSE acc)

\* The loop over the contexts, from context i of order on.
RECURSIVE SearchContextsFrom(_, _, _, _, _, _, _)
SearchContextsFrom(m, order, nss, q, oc, i, acc) ==
  IF i > Len(order) THEN acc
  ELSE
    LET c == order[i]
    IN  IF oc.client[c] # "ok"
        THEN SearchContextsFrom(m, order, nss, q, oc, i + 1, acc)
        ELSE IF UseProvided(nss)
        THEN SearchContextsFrom(m, order, nss, q, oc, i + 1,
               SearchNamespacesFrom(m, c, nss, q, oc.scope[c], 1, acc))
        ELSE IF oc.nslist[c] # "ok"
        THEN SearchContextsFrom(m, order, nss, q, oc, i + 1, acc)
        ELSE SearchContextsFrom(m, order, nss, q, oc, i + 1,
               SearchNamespacesFrom(m, c, ApiNamespaces(c), q, oc.scope[c], 1, acc))

SearchAllContexts_FirstOnly(m, order, nss, q, oc) ==
  SearchContextsFrom(m, SubSeq(order, 1, 1), nss, q, oc, 1, <<>>)

SearchAllContexts(m, order, nss, q, oc) ==
  SearchContextsFrom(m, order, nss, q, oc, 1, <<>>)

(***************************************************************************)
(* The all-contexts search called as a library, from its call to the       *)
(* return of the fan-out: what a second run repeats.                       *)
(***************************************************************************)
NextSearch ==
  \/ CallAllContexts
  \/ CheckQuery
  \/ GetAccessibleNamespaces
  \/ LoadContexts
  \/ VisitContext
  \/ SearchScope
  \/ NextContext
  \/ ReturnResults

SpecSearch == Init /\ [][NextSearch]_vars

\* The same search, every step of which is taken once it can be: the code is
\* sequential and each step waits for nothing but the return of its calls.
\* The callers of the search whose termination is checked: no namespace list
\* (discovery, then the API listing of each context), one namespace, two.
InitLive ==
  /\ Init
  /\ nsFlag \in {<<>>, <<"n1">>, <<"n2", "n1">>}
  /\ currentContext = "c1"

SpecSearchLive == InitLive /\ [][NextSearch]_vars /\ WF_vars(NextSearch)

(***************************************************************************)
(* The all-contexts search under its deadline.                             *)
(***************************************************************************)
NextDeadline ==
  \/ Next
  \/ Cancel

SpecDeadline == Init /\ [][NextDeadline]_vars

(***************************************************************************)
(* pkg: GetDeploymentByReplicaSet called on a client of context c1 for     *)
(* ReplicaSet rs1 of namespace n1.                                         *)
(***************************************************************************)
\* Most owner references of the ReplicaSet.
MaxOwners == 3

OwnerChoices ==
  { Owner("Deployment", "d1"), Owner("Deployment", "d2"), Owner("StatefulSet", "x1") }

OwnerLists == UNION { [1..n -> OwnerChoices] : n \in 0..MaxOwners }

CallGetDeploymentByReplicaSet ==
  /\ pc = "start"
  /\ \E o \in Outcomes :
       /\ log' = Append(log, Call("GetReplicaSet", "c1", "n1", o, "resolve"))
       /\ resolveLog' = Append(resolveLog, ResolveRecord("c1", "n1", "rs1", o))
  /\ pc' = "done"
  /\ UNCHANGED << mode, query, nsFlag, contextName, currentContext, namespaces,
                  contexts, ci, namespacesToSearch, ni, results, resultsNil,
                  found, err, scopeLog, extraPods, extraSvcs, cancelled,
                  rsOwners, summary >>

InitResolve ==
  /\ pc = "start"
  /\ mode = "none"
  /\ query = <<>>
  /\ nsFlag = <<"n1">>
  /\ contextName = "c1"
  /\ currentContext = "c1"
  /\ namespaces = <<>>
  /\ contexts = <<>>
  /\ ci = 1
  /\ namespacesToSearch = <<>>
  /\ ni = 1
  /\ results = <<>>
  /\ resultsNil = TRUE
  /\ found = [pods |-> <<>>, services |-> <<>>]
  /\ err = "none"
  /\ log = <<>>
  /\ scopeLog = <<>>
  /\ extraPods = <<>>
  /\ extraSvcs = <<>>
  /\ cancelled = FALSE
  /\ rsOwners \in OwnerLists
  /\ resolveLog = <<>>
  /\ summary = <<>>

NextResolve == CallGetDeploymentByReplicaSet

SpecResolve == InitResolve /\ [][NextResolve]_vars

(***************************************************************************)
(* Properties.                                                             *)
(***************************************************************************)
AllNamespaces == {"n1", "n2", "n3"}

\* SearchBy...AllContexts has returned.
Returned == pc \in {"return", "done"} /\ \E i \in DOMAIN log : log[i].op = "LoadKubeConfig"

LoadFailed ==
  \E i \in DOMAIN log : log[i].op = "LoadKubeConfig" /\ log[i].outcome # "ok"

FanoutCalls == { i \in DOMAIN log : log[i].phase = "fanout" /\ log[i].op # "LoadKubeConfig" }

\* The contexts for which the fan-out built a client.
BuiltContexts ==
  { log[i].ctx : i \in { k \in FanoutCalls :
                           log[k].op = "NewK8sClient" /\ log[k].outcome = "ok" } }

\* The (context, namespace) pairs SearchByIP / SearchByName was called for.
SearchedScopes == { <<scopeLog[j].ctx, scopeLog[j].nss[1]>> : j \in DOMAIN scopeLog }

NonEmpty(r) == Len(r.pods) > 0 \/ Len(r.services) > 0

\* The search of (c, ns) was issued and returned r's pods and services.
HasEntry(c, ns, pods, services) ==
  \E k \in DOMAIN results :
    /\ results[k].Context = c
    /\ results[k].Namespace = ns
    /\ results[k].Pods = pods
    /\ results[k].Services = services

\* C1: whatever the outcomes of client construction and of the namespace, pod
\* and service list calls, once the kubeconfig is loaded the all-contexts
\* search returns a nil error, has tried every context, has searched every
\* namespace of every context it resolved, and its result holds an entry for
\* every scope whose search returned without error and with a match.
C1_FailureIsolation ==
  (Returned /\ ~LoadFailed) =>
    /\ err = "none"
    /\ ~resultsNil
    /\ \A c \in Contexts :
         \E i \in FanoutCalls : log[i].op = "NewK8sClient" /\ log[i].ctx = c
    /\ \A c \in BuiltContexts :
         /\ namespaces # <<>> =>
              \A k \in DOMAIN namespaces : <<c, namespaces[k]>> \in SearchedScopes
         /\ (\E i \in FanoutCalls : /\ log[i].op = "ListNamespaces"
                                    /\ log[i].ctx = c
                                    /\ log[i].outcome = "ok") =>
              \A k \in DOMAIN ApiNamespaces(c) :
                <<c, ApiNamespaces(c)[k]>> \in SearchedScopes
    /\ \A j \in DOMAIN scopeLog :
         (scopeLog[j].err = "none" /\ NonEmpty(scopeLog[j])) =>
           HasEntry(scopeLog[j].ctx, scopeLog[j].nss[1],
                    scopeLog[j].pods, scopeLog[j].services)

\* C1 witness: the search has returned after a scope whose search failed was
\* followed by a scope whose matches are in the result, in a run where a
\* client could not be built either.
C1_Witness ==
  /\ Returned
  /\ \E i \in FanoutCalls : log[i].op = "NewK8sClient" /\ log[i].outcome # "ok"
  /\ \E j, k \in DOMAIN scopeLog :
       /\ j < k
       /\ scopeLog[j].err # "none"
       /\ scopeLog[k].err = "none"
       /\ HasEntry(scopeLog[k].ctx, scopeLog[k].nss[1],
                   scopeLog[k].pods, scopeLog[k].services)

\* No call the run issued about context c, or about a namespace of it, failed.
NoFailureIn(c) == \A i \in DOMAIN log : log[i].ctx = c => log[i].outcome = "ok"

HasPod(pods, p) ==
  \E k \in DOMAIN pods :
    /\ pods[k].Name = p.Name
    /\ pods[k].Namespace = p.Namespace
    /\ pods[k].PodIP = p.PodIP
    /\ pods[k].HostIP = p.HostIP

HasSvc(services, s) ==
  \E k \in DOMAIN services :
    /\ services[k].Name = s.Name
    /\ services[k].Namespace = s.Namespace
    /\ services[k].ClusterIP = s.ClusterIP
    /\ services[k].ExternalIPs = s.ExternalIPs
    /\ services[k].Type = s.Type

\* name contains q as a contiguous substring, character by character.
IsSubstring(name, q) ==
  \E off \in 0..Len(name) :
    /\ off + Len(q) <= Len(name)
    /\ \A t \in 1..Len(q) : name[off + t] = q[t]

PodIsMatch(m, p, q) ==
  IF m = "ip" THEN p.PodIP = q \/ p.HostIP = q ELSE IsSubstring(p.Name, q)

SvcIsMatch(s, q) ==
  \/ s.ClusterIP = q
  \/ \E i \in DOMAIN s.ExternalIPs : s.ExternalIPs[i] = q
  \/ (s.Type = "LoadBalancer" /\ \E i \in DOMAIN s.Ingress : s.Ingress[i] = q)

\* C2: with no namespace list given, once the all-contexts search has returned,
\* every pod and (IP search) every service that matches the query and lives in
\* a namespace of the API list of a context is in the result entry of its
\* scope, in every context where no call failed (client built, namespaces
\* listed, listing permitted), whichever context is the current one.
C2_EveryNamespaceOfEveryContext ==
  (Returned /\ ~LoadFailed /\ nsFlag = <<>>) =>
    \A c \in Contexts :
      NoFailureIn(c) =>
        \A i \in DOMAIN ApiNamespaces(c) :
          LET ns == ApiNamespaces(c)[i]
          IN  /\ \A k \in DOMAIN ListedPods(c, ns) :
                   PodIsMatch(mode, ListedPods(c, ns)[k], query) =>
                     \E r \in DOMAIN results :
                       /\ results[r].Context = c
                       /\ results[r].Namespace = ns
                       /\ HasPod(results[r].Pods, ListedPods(c, ns)[k])
              /\ mode = "ip" =>
                   \A k \in DOMAIN ListedSvcs(c, ns) :
                     SvcIsMatch(ListedSvcs(c, ns)[k], query) =>
                       \E r \in DOMAIN results :
                         /\ results[r].Context = c
                         /\ results[r].Namespace = ns
                         /\ HasSvc(results[r].Services, ListedSvcs(c, ns)[k])

\* C3 as stated: a pod the pod list call of a searched scope returned is in the
\* return of that scope's IP search if the query equals its PodIP or HostIP,
\* and no pod is returned whose PodIP and HostIP both differ from the query.
C3_PodMatchedByIP_AsStated ==
  \A j \in DOMAIN scopeLog :
    (scopeLog[j].mode = "ip" /\ scopeLog[j].oc[1].pod = "ok") =>
      LET listed == ListedPods(scopeLog[j].ctx, scopeLog[j].nss[1])
      IN  /\ \A k \in DOMAIN listed :
               (listed[k].PodIP = query \/ listed[k].HostIP = query) =>
                 HasPod(scopeLog[j].pods, listed[k])
          /\ \A k \in DOMAIN scopeLog[j].pods :
               scopeLog[j].pods[k].PodIP = query \/ scopeLog[j].pods[k].HostIP = query

\* C3 as amended: the same, unless the service list call of the scope fails
\* with an error that is neither forbidden nor unauthorized: the scope's search
\* then returns that error and no pods.
C3_PodMatchedByIP ==
  \A j \in DOMAIN scopeLog :
    (scopeLog[j].mode = "ip" /\ scopeLog[j].oc[1].pod = "ok") =>
      LET listed == ListedPods(scopeLog[j].ctx, scopeLog[j].nss[1])
      IN  /\ scopeLog[j].oc[1].svc # "other" =>
               \A k \in DOMAIN listed :
                 (listed[k].PodIP = query \/ listed[k].HostIP = query) =>
                   /\ HasPod(scopeLog[j].pods, listed[k])
                   /\ \E r \in DOMAIN results :
                        /\ results[r].Context = scopeLog[j].ctx
                        /\ results[r].Namespace = scopeLog[j].nss[1]
                        /\ HasPod(results[r].Pods, listed[k])
          /\ scopeLog[j].oc[1].svc = "other" =>
               scopeLog[j].err # "none" /\ scopeLog[j].pods = <<>>
          /\ \A k \in DOMAIN scopeLog[j].pods :
               scopeLog[j].pods[k].PodIP = query \/ scopeLog[j].pods[k].HostIP = query

\* C3 witness: a scope returned a pod matched by its host IP alone, next to a
\* listed pod that does not match, with the service list refused.
C3_Witness ==
  \E j \in DOMAIN scopeLog :
    /\ scopeLog[j].mode = "ip"
    /\ IsPermissionError(scopeLog[j].oc[1].svc)
    /\ \E k \in DOMAIN scopeLog[j].pods :
         scopeLog[j].pods[k].HostIP = query /\ scopeLog[j].pods[k].PodIP # query
    /\ \E j2 \in DOMAIN scopeLog :
         /\ scopeLog[j2].oc[1].pod = "ok"
         /\ Len(ListedPods(scopeLog[j2].ctx, scopeLog[j2].nss[1])) > Len(scopeLog[j2].pods)
         /\ Len(scopeLog[j2].pods) > 0

\* C6: every entry of the result list holds a pod or a service, and a
\* (context, namespace) scope has an entry exactly when a search of it
\* returned without error and with at least one match.
C6_NoEmptyEntry ==
  /\ \A k \in DOMAIN results :
       Len(results[k].Pods) > 0 \/ Len(results[k].Services) > 0
  /\ \A c \in Contexts, ns \in AllNamespaces :
       (\E k \in DOMAIN results : results[k].Context = c /\ results[k].Namespace = ns)
         <=> (\E j \in DOMAIN scopeLog :
                /\ scopeLog[j].ctx = c
                /\ scopeLog[j].nss = <<ns>>
                /\ scopeLog[j].err = "none"
                /\ (Len(scopeLog[j].pods) > 0 \/ Len(scopeLog[j].services) > 0))

\* C6 witness: the search has returned with an entry in its result, after a
\* scope whose search succeeded with no match and was dropped.
C6_Witness ==
  /\ Returned
  /\ Len(results) > 0
  /\ \E j \in DOMAIN scopeLog :
       /\ scopeLog[j].err = "none"
       /\ scopeLog[j].oc[1] = [pod |-> "ok", svc |-> "ok"]
       /\ scopeLog[j].pods = <<>>
       /\ scopeLog[j].services = <<>>
       /\ \A k \in DOMAIN results :
            ~(results[k].Context = scopeLog[j].ctx /\ results[k].Namespace = scopeLog[j].nss[1])

\* C7: with no namespace list given, every pod or service list call of the
\* fan-out is about a (context, namespace) pair whose probe succeeded earlier
\* in that context.
C7_SearchOnlyProbedScopes ==
  nsFlag = <<>> =>
    \A i \in FanoutCalls :
      log[i].op \in {"ListPods", "ListServices"} =>
        \E j \in 1..(i - 1) :
          /\ log[j].op = "ProbePods"
          /\ log[j].ctx = log[i].ctx
          /\ log[j].ns = log[i].ns
          /\ log[j].outcome = "ok"

\* C8: with a non-empty namespace list given, no namespace list call and no
\* probe is ever issued, only pairs of a built context and a listed namespace
\* are searched, and at the return all of these pairs have been searched.
C8_ExplicitNamespaces ==
  nsFlag # <<>> =>
    /\ \A i \in DOMAIN log : log[i].op \notin {"ListNamespaces", "ProbePods"}
    /\ SearchedScopes \subseteq
         { <<c, nsFlag[k]>> : c \in BuiltContexts, k \in DOMAIN nsFlag }
    /\ (Returned /\ ~LoadFailed) =>
         SearchedScopes = { <<c, nsFlag[k]>> : c \in BuiltContexts, k \in DOMAIN nsFlag }

\* C8 witness: returned with two namespaces given, one context built and
\* searched in both, the other context not built.
C8_Witness ==
  /\ Returned
  /\ Len(nsFlag) = 2
  /\ nsFlag[1] # nsFlag[2]
  /\ Cardinality(BuiltContexts) = 1
  /\ Cardinality(SearchedScopes) = 2

\* C9: at the return of SearchBy...AllContexts the error is non-nil exactly
\* when LoadKubeConfig failed; then the result is nil and the call has built no
\* client and issued no cluster call; otherwise the result is a non-nil list.
C9_ErrorOnlyFromLoad ==
  Returned =>
    /\ (err # "none") <=> LoadFailed
    /\ LoadFailed => (resultsNil /\ FanoutCalls = {} /\ scopeLog = <<>>)
    /\ ~LoadFailed => (err = "none" /\ ~resultsNil)

\* C9 witness: the call returned the load error after namespace discovery had
\* succeeded.
C9_Witness ==
  /\ Returned
  /\ LoadFailed
  /\ err = "failed to load kubeconfig"
  /\ namespaces # <<>>

\* The other witness of C9: the call returned a non-nil empty list, no error.
C9_WitnessEmpty == Returned /\ ~LoadFailed /\ results = <<>> /\ ~resultsNil

\* C10: once SearchK8sByIPAllContexts has checked a query that is no valid IP,
\* or SearchK8sByNameAllContexts the empty query, the command is over with an
\* error and no call of any kind was issued.
C10_InvalidQueryIsFatal ==
  (pc \notin {"start", "cmd"} /\
     ((mode = "ip" /\ ~ValidateIP(query)) \/ (mode = "name" /\ query = <<>>))) =>
    /\ pc = "done"
    /\ err \in {"invalid IP address", "name cannot be empty"}
    /\ log = <<>>
    /\ scopeLog = <<>>
    /\ namespaces = nsFlag

\* C10 witness: the IP command has refused a query that is no IP.
C10_Witness ==
  /\ pc = "done"
  /\ mode = "ip"
  /\ query = <<"a", "b">>
  /\ err = "invalid IP address"
  /\ log = <<>>

\* The service list call of namespace i of search record e was issued and
\* succeeded.
SvcsListed(e, i) ==
  Reached(e.oc, i) /\ e.oc[i].pod = "ok" /\ e.oc[i].svc = "ok"

\* The pod list call of namespace i of search record e was issued and succeeded.
PodsListed(e, i) == Reached(e.oc, i) /\ e.oc[i].pod = "ok"

\* C4 as stated: SearchByIP returns a service one of its service list calls
\* returned exactly when the cluster IP or an external IP equals the query, or
\* the type is LoadBalancer and an ingress IP equals the query.
C4_ServiceMatchedByIP_AsStated ==
  \A j \in DOMAIN scopeLog :
    scopeLog[j].mode = "ip" =>
      \A i \in DOMAIN scopeLog[j].nss :
        SvcsListed(scopeLog[j], i) =>
          LET listed == ListedSvcs(scopeLog[j].ctx, scopeLog[j].nss[i])
          IN  \A k \in DOMAIN listed :
                HasSvc(scopeLog[j].services, listed[k]) <=> SvcIsMatch(listed[k], query)

\* C4 as amended: the same of every call of SearchByIP that returns a nil
\* error; a call that returns an error returns no service.
C4_ServiceMatchedByIP ==
  \A j \in DOMAIN scopeLog :
    scopeLog[j].mode = "ip" =>
      /\ scopeLog[j].err = "none" =>
           \A i \in DOMAIN scopeLog[j].nss :
             SvcsListed(scopeLog[j], i) =>
               LET listed == ListedSvcs(scopeLog[j].ctx, scopeLog[j].nss[i])
               IN  \A k \in DOMAIN listed :
                     HasSvc(scopeLog[j].services, listed[k])
                       <=> SvcIsMatch(listed[k], query)
      /\ scopeLog[j].err # "none" => scopeLog[j].services = <<>>
      /\ \A k \in DOMAIN scopeLog[j].services :
           \E i \in DOMAIN scopeLog[j].nss :
             /\ SvcsListed(scopeLog[j], i)
             /\ \E l \in DOMAIN ListedSvcs(scopeLog[j].ctx, scopeLog[j].nss[i]) :
                  LET sv == ListedSvcs(scopeLog[j].ctx, scopeLog[j].nss[i])[l]
                  IN  /\ sv.Name = scopeLog[j].services[k].Name
                      /\ sv.Namespace = scopeLog[j].services[k].Namespace
                      /\ SvcIsMatch(sv, query)

\* C4 witness: a call returned without error a LoadBalancer service matched by
\* an ingress IP alone, or left out a listed service of another type whose
\* ingress IP alone equals the query.
C4_Witness ==
  \E j \in DOMAIN scopeLog :
    /\ scopeLog[j].mode = "ip"
    /\ scopeLog[j].err = "none"
    /\ extraSvcs # <<>>
    /\ \E i \in DOMAIN scopeLog[j].nss :
         /\ SvcsListed(scopeLog[j], i)
         /\ scopeLog[j].ctx = "c1"
         /\ scopeLog[j].nss[i] = "n1"
    /\ extraSvcs[1].ClusterIP # query
    /\ extraSvcs[1].ExternalIPs = <<>>
    /\ \E i \in DOMAIN extraSvcs[1].Ingress : extraSvcs[1].Ingress[i] = query
    /\ extraSvcs[1].Type = "ClusterIP"
    /\ ~HasSvc(scopeLog[j].services, extraSvcs[1])

\* The other witness of C4: the LoadBalancer service matched by its ingress IP.
C4_WitnessLoadBalancer ==
  \E j \in DOMAIN scopeLog :
    /\ scopeLog[j].mode = "ip"
    /\ scopeLog[j].err = "none"
    /\ extraSvcs # <<>>
    /\ extraSvcs[1].ClusterIP # query
    /\ extraSvcs[1].ExternalIPs = <<>>
    /\ extraSvcs[1].Type = "LoadBalancer"
    /\ HasSvc(scopeLog[j].services, extraSvcs[1])

\* The entries of pods that are pod p.
EntriesOf(pods, p) ==
  { k \in DOMAIN pods : pods[k].Name = p.Name /\ pods[k].Namespace = p.Namespace }

\* C5 as stated: SearchByName returns a pod one of its pod list calls returned
\* exactly when the name contains the query, in one entry, and no services.
C5_PodMatchedByName_AsStated ==
  \A j \in DOMAIN scopeLog :
    scopeLog[j].mode = "name" =>
      /\ scopeLog[j].services = <<>>
      /\ \A i \in DOMAIN scopeLog[j].nss :
           PodsListed(scopeLog[j], i) =>
             LET listed == ListedPods(scopeLog[j].ctx, scopeLog[j].nss[i])
             IN  \A k \in DOMAIN listed :
                   /\ HasPod(scopeLog[j].pods, listed[k])
                        <=> IsSubstring(listed[k].Name, query)
                   /\ IsSubstring(listed[k].Name, query) =>
                        Cardinality(EntriesOf(scopeLog[j].pods, listed[k])) = 1

\* C5 as amended: of every call of SearchByName that returns a nil error, a
\* pod one of its pod list calls returned is in the result exactly when its
\* name contains the query, with one entry for each entry of the client's
\* namespace list that names its namespace and whose pod list call succeeded;
\* no services are returned, and a call that returns an error returns no pod.
C5_PodMatchedByName ==
  \A j \in DOMAIN scopeLog :
    scopeLog[j].mode = "name" =>
      /\ scopeLog[j].services = <<>>
      /\ scopeLog[j].err # "none" => scopeLog[j].pods = <<>>
      /\ scopeLog[j].err = "none" =>
           \A i \in DOMAIN scopeLog[j].nss :
             PodsListed(scopeLog[j], i) =>
               LET listed == ListedPods(scopeLog[j].ctx, scopeLog[j].nss[i])
               IN  \A k \in DOMAIN listed :
                     /\ HasPod(scopeLog[j].pods, listed[k])
                          <=> IsSubstring(listed[k].Name, query)
                     /\ IsSubstring(listed[k].Name, query) =>
                          Cardinality(EntriesOf(scopeLog[j].pods, listed[k])) =
                            Cardinality({ i2 \in DOMAIN scopeLog[j].nss :
                                            /\ scopeLog[j].nss[i2] = scopeLog[j].nss[i]
                                            /\ PodsListed(scopeLog[j], i2) })
      /\ \A k \in DOMAIN scopeLog[j].pods :
           /\ IsSubstring(scopeLog[j].pods[k].Name, query)
           /\ \E i \in DOMAIN scopeLog[j].nss :
                /\ PodsListed(scopeLog[j], i)
                /\ scopeLog[j].nss[i] = scopeLog[j].pods[k].Namespace

\* C5 witness: a call over two namespaces returned, without error, a pod whose
\* name holds the two-letter query past its first letter, and left out a listed
\* pod of the same namespace.
C5_Witness ==
  \E j \in DOMAIN scopeLog :
    /\ scopeLog[j].mode = "name"
    /\ scopeLog[j].err = "none"
    /\ Len(scopeLog[j].nss) = 2
    /\ Len(query) = 2
    /\ \E k \in DOMAIN scopeLog[j].pods :
         /\ Len(scopeLog[j].pods[k].Name) = 3
         /\ SubSeq(scopeLog[j].pods[k].Name, 2, 3) = query
         /\ SubSeq(scopeLog[j].pods[k].Name, 1, 2) # query
    /\ scopeLog[j].ctx = "c1"
    /\ \E i \in DOMAIN scopeLog[j].nss : scopeLog[j].nss[i] = "n1" /\ PodsListed(scopeLog[j], i)
    /\ \E k \in DOMAIN ListedPods("c1", "n1") :
         ~HasPod(scopeLog[j].pods, ListedPods("c1", "n1")[k])

\* The outcomes of a list call the API refused (403 / 401).
Refused == {"forbidden", "unauthorized"}

\* C11: in an IP search none of whose list calls fails with another error, no
\* error is returned, and a refused list call skips its resource kind only: a
\* namespace whose pod list is refused and whose service list succeeds gives
\* its matching services, a namespace whose service list is refused gives its
\* matching pods.
C11_RefusalSkipsOneKind ==
  \A j \in DOMAIN scopeLog :
    (/\ scopeLog[j].mode = "ip"
     /\ \A i \in DOMAIN scopeLog[j].oc :
          scopeLog[j].oc[i].pod # "other" /\ scopeLog[j].oc[i].svc # "other") =>
      /\ scopeLog[j].err = "none"
      /\ \A i \in DOMAIN scopeLog[j].nss :
           LET o == scopeLog[j].oc[i]
               pods == ListedPods(scopeLog[j].ctx, scopeLog[j].nss[i])
               svcs == ListedSvcs(scopeLog[j].ctx, scopeLog[j].nss[i])
           IN  /\ (o.pod \in Refused /\ o.svc = "ok") =>
                    \A k \in DOMAIN svcs :
                      SvcIsMatch(svcs[k], query) => HasSvc(scopeLog[j].services, svcs[k])
               /\ (o.pod = "ok" /\ o.svc \in Refused) =>
                    \A k \in DOMAIN pods :
                      PodIsMatch("ip", pods[k], query) => HasPod(scopeLog[j].pods, pods[k])

ListOps == {"ListPods", "ListServices"}

\* The list calls of the run that failed with an error that is neither
\* forbidden nor unauthorized.
OtherFailures ==
  { i \in DOMAIN log : log[i].op \in ListOps /\ log[i].outcome \notin ({"ok"} \cup Refused) }

\* C12: a single-context search one of whose list calls fails with an error
\* that is neither forbidden nor unauthorized returns a non-nil error, which
\* names the resource kind of the failing call, and no pod and no service;
\* a search without such a failure returns a nil error.
C12_OtherErrorIsSurfaced ==
  (pc = "done" /\ Len(scopeLog) > 0) =>
    /\ scopeLog[1].err = err
    /\ scopeLog[1].pods = found.pods
    /\ scopeLog[1].services = found.services
    /\ (OtherFailures = {}) <=> (err = "none")
    /\ \A i \in OtherFailures :
         /\ log[i].op = "ListPods" => err = "failed to list pods"
         /\ log[i].op = "ListServices" => err = "failed to list services"
         /\ found.pods = <<>>
         /\ found.services = <<>>

\* C12 witness: a search over two namespaces has returned an error from a
\* list call of the second, after the first namespace was listed without
\* failure and held a match.
C12_Witness ==
  /\ pc = "done"
  /\ Len(scopeLog) = 1
  /\ Len(scopeLog[1].nss) = 2
  /\ scopeLog[1].oc[1] = [pod |-> "ok", svc |-> "ok"]
  /\ scopeLog[1].oc[2].pod = "other" \/ scopeLog[1].oc[2].svc = "other"
  /\ LET pods == ListedPods(scopeLog[1].ctx, scopeLog[1].nss[1])
     IN  \E k \in DOMAIN pods : PodIsMatch(mode, pods[k], query)
  /\ err # "none"
  /\ found.pods = <<>>

\* The namespace list call of context c failed in the given phase of the run.
NsListFailed(c, phase) ==
  \E i \in DOMAIN log :
    /\ log[i].op = "ListNamespaces"
    /\ log[i].ctx = c
    /\ log[i].phase = phase
    /\ log[i].outcome # "ok"

NsListed(c, phase) ==
  \E i \in DOMAIN log :
    /\ log[i].op = "ListNamespaces"
    /\ log[i].ctx = c
    /\ log[i].phase = phase
    /\ log[i].outcome = "ok"

\* C13: with no namespace list given, once the search has returned: the error
\* is nil and every context was tried; a context whose namespace list call
\* failed in the fan-out has no scope searched and no entry; and when the
\* namespace list call of discovery failed for the current context, the
\* fan-out got no list, asked every context it built a client for for its own
\* namespaces, and searched all of them where that call succeeded.
C13_NamespaceListFailure ==
  (Returned /\ ~LoadFailed /\ nsFlag = <<>>) =>
    /\ err = "none"
    /\ \A c \in Contexts :
         \E i \in FanoutCalls : log[i].op = "NewK8sClient" /\ log[i].ctx = c
    /\ \A c \in Contexts :
         NsListFailed(c, "fanout") =>
           /\ \A j \in DOMAIN scopeLog : scopeLog[j].ctx # c
           /\ \A k \in DOMAIN results : results[k].Context # c
    /\ NsListFailed(currentContext, "discover") =>
         /\ namespaces = <<>>
         /\ \A c \in BuiltContexts :
              /\ NsListed(c, "fanout") \/ NsListFailed(c, "fanout")
              /\ NsListed(c, "fanout") =>
                   \A k \in DOMAIN ApiNamespaces(c) :
                     <<c, ApiNamespaces(c)[k]>> \in SearchedScopes

\* C13 witness: the search has returned entries of one context after the
\* namespace list call failed for the current context during discovery and
\* for a context of the fan-out.
C13_Witness ==
  /\ Returned
  /\ nsFlag = <<>>
  /\ NsListFailed(currentContext, "discover")
  /\ \E c \in Contexts : NsListFailed(c, "fanout")
  /\ Len(results) > 0
  /\ err = "none"

\* The namespaces the fan-out searches in context c, in order.
NamespaceOrder(c) == IF Len(namespaces) > 0 THEN namespaces ELSE ApiNamespaces(c)

\* The (context, namespace) pairs in the order the fan-out visits them, from
\* context i of this run's context order on.
RECURSIVE VisitOrder(_)
VisitOrder(i) ==
  IF i > Len(contexts) THEN <<>>
  ELSE [k \in 1..Len(NamespaceOrder(contexts[i])) |->
          <<contexts[i], NamespaceOrder(contexts[i])[k]>>] \o VisitOrder(i + 1)

\* keys[i..] can be read off order[j..] from left to right.
RECURSIVE IsSubsequence(_, _, _, _)
IsSubsequence(keys, order, i, j) ==
  IF i > Len(keys) THEN TRUE
  ELSE IF j > Len(order) THEN FALSE
  ELSE IF keys[i] = order[j] THEN IsSubsequence(keys, order, i + 1, j + 1)
  ELSE IsSubsequence(keys, order, i, j + 1)

ResultKeys == [k \in DOMAIN results |-> <<results[k].Context, results[k].Namespace>>]

ContextIndex(c) == CHOOSE i \in DOMAIN contexts : contexts[i] = c

\* C15: the entries of the result list are in visit order: their (context,
\* namespace) pairs read off the visit order from left to right, so the
\* entries of a context are contiguous, the contexts follow the order of this
\* run's context list, and within a context the namespaces follow the given
\* list or the API listing.
C15_VisitOrderPreserved ==
  /\ IsSubsequence(ResultKeys, VisitOrder(1), 1, 1)
  /\ \A k1, k2 \in DOMAIN results :
       k1 < k2 => ContextIndex(results[k1].Context) <= ContextIndex(results[k2].Context)

\* C15 witness: the search has returned three entries or more, those of the
\* context visited first (c2) before those of the context visited second, and
\* two entries of one context in the order of its API listing.
C15_Witness ==
  /\ Returned
  /\ nsFlag = <<>>
  /\ contexts = <<"c2", "c1">>
  /\ Len(results) >= 3
  /\ results[1].Context = "c2" /\ results[1].Namespace = "n2"
  /\ results[2].Context = "c2" /\ results[2].Namespace = "n3"
  /\ results[3].Context = "c1"

C14_CancelKeepsResults ==
  [][(cancelled /\ (pc \in {"context", "scope"} \/ (pc = "return" /\ ~LoadFailed))) =>
       /\ results' = results
       /\ err' = "none"
       /\ resultsNil' = FALSE]_vars

\* C14 witness: the command is over with a nil error and an entry in its
\* result, after the deadline expired and the search of a scope that holds a
\* match failed for it.
C14_Witness ==
  /\ pc = "done"
  /\ cancelled
  /\ err = "none"
  /\ Len(results) > 0
  /\ \E j \in DOMAIN scopeLog :
       /\ scopeLog[j].oc[1].pod = "canceled"
       /\ scopeLog[j].err # "none"
       /\ LET pods == ListedPods(scopeLog[j].ctx, scopeLog[j].nss[1])
          IN  \E k \in DOMAIN pods : PodIsMatch(mode, pods[k], query)

\* The pods of the result list, each with the context and namespace of its
\* entry.
ResultPods ==
  UNION { { [Context |-> results[k].Context, Namespace |-> results[k].Namespace,
             pod |-> results[k].Pods[i]] : i \in 1..Len(results[k].Pods) } :
          k \in DOMAIN results }

DisplayCalls(op) == { i \in DOMAIN log : log[i].phase = "display" /\ log[i].op = op }

\* What C18 says of every state: the owner kind and name of a returned pod
\* are those of the first owner reference of the listed pod, or both empty;
\* the display builds a client and asks for a ReplicaSet only on behalf of a
\* returned pod whose owner kind is ReplicaSet (so never for a pod without
\* owner references), and for each of those once the command is over; the
\* command that got a result list ends with a nil error.
C18_OwnerState ==
  /\ \A d \in ResultPods :
       \E k \in DOMAIN ListedPods(d.Context, d.Namespace) :
         LET p == ListedPods(d.Context, d.Namespace)[k]
         IN  /\ p.Name = d.pod.Name
             /\ Len(p.OwnerReferences) = 0 =>
                  d.pod.OwnerKind = "" /\ d.pod.OwnerName = ""
             /\ Len(p.OwnerReferences) > 0 =>
                  /\ d.pod.OwnerKind = p.OwnerReferences[1].Kind
                  /\ d.pod.OwnerName = p.OwnerReferences[1].Name
  /\ \A i \in DisplayCalls("GetReplicaSet") :
       \E d \in ResultPods :
         /\ d.pod.OwnerKind = "ReplicaSet"
         /\ d.Context = log[i].ctx
         /\ d.pod.Namespace = log[i].ns
  /\ \A i \in DisplayCalls("NewK8sClient") :
       \E d \in ResultPods : d.pod.OwnerKind = "ReplicaSet" /\ d.Context = log[i].ctx
  /\ \A j \in DOMAIN resolveLog :
       \E d \in ResultPods :
         /\ d.pod.OwnerKind = "ReplicaSet"
         /\ d.pod.OwnerName = resolveLog[j].rs
         /\ d.Context = resolveLog[j].ctx
         /\ d.pod.Namespace = resolveLog[j].ns
  /\ (pc = "done" /\ Returned /\ ~LoadFailed) =>
       /\ err = "none"
       /\ (\E d \in ResultPods : d.pod.OwnerKind = "ReplicaSet") <=>
            DisplayCalls("NewK8sClient") # {}

\* C18: the above in every state, and the display, whatever its client
\* constructions and its resolver calls return, leaves the result list and
\* the error of the search as they were.
C18_OwnerResolutionBestEffort ==
  /\ []C18_OwnerState
  /\ [][pc = "return" => (results' = results /\ resultsNil' = resultsNil /\ err' = err)]_vars

\* C18 witness: the command is over with a nil error after a display in which
\* one resolver call returned a Deployment, another one found a ReplicaSet
\* that no Deployment owns, and a returned pod without owner references was
\* shown without any call.
C18_Witness ==
  /\ pc = "done"
  /\ err = "none"
  /\ \E j \in DOMAIN resolveLog : resolveLog[j].err = "none" /\ resolveLog[j].name # ""
  /\ \E j \in DOMAIN resolveLog :
       resolveLog[j].err = "no deployment found for replicaset"
  /\ \E d \in ResultPods : d.pod.OwnerKind = "" /\ d.pod.OwnerName = ""

\* C18 witness: a client of the display could not be built, and a returned
\* pod owned by a DaemonSet was shown without any call.
C18_WitnessClient ==
  /\ pc = "done"
  /\ err = "none"
  /\ \E i \in DisplayCalls("NewK8sClient") : log[i].outcome # "ok"
  /\ \E d \in ResultPods : d.pod.OwnerKind = "DaemonSet"

\* The owner references of kind Deployment of the ReplicaSet a resolver call
\* was about.
DeploymentRefs(rec) ==
  { i \in DOMAIN ReplicaSetOwners(rec.ctx, rec.ns, rec.rs) :
      ReplicaSetOwners(rec.ctx, rec.ns, rec.rs)[i].Kind = "Deployment" }

\* C19: GetDeploymentByReplicaSet returns a nil error exactly when the Get
\* call succeeded and the ReplicaSet has an owner reference of kind
\* Deployment, and then the name of the first of these; otherwise it returns
\* the empty name and the error of its case: the Get call failed, the
\* ReplicaSet has no owner reference, none of them is a Deployment.
C19_FirstDeploymentOwner ==
  \A j \in DOMAIN resolveLog :
    LET rec == resolveLog[j]
        owners == ReplicaSetOwners(rec.ctx, rec.ns, rec.rs)
        deps == DeploymentRefs(rec)
    IN  /\ (rec.err = "none") <=> (rec.outcome = "ok" /\ deps # {})
        /\ rec.err = "none" =>
             \E i \in deps : /\ \A k \in deps : i <= k
                             /\ rec.name = owners[i].Name
        /\ rec.err # "none" => rec.name = ""
        /\ rec.outcome # "ok" => rec.err = "failed to get replicaset"
        /\ (rec.outcome = "ok" /\ Len(owners) = 0) => rec.err = "replicaset has no owner"
        /\ (rec.outcome = "ok" /\ Len(owners) > 0 /\ deps = {}) =>
             rec.err = "no deployment found for replicaset"

\* C19 witness: the resolver returned the name of the second owner reference,
\* the first Deployment among three references of which the third is a
\* Deployment of another name.
C19_Witness ==
  \E j \in DOMAIN resolveLog :
    LET owners == ReplicaSetOwners(resolveLog[j].ctx, resolveLog[j].ns, resolveLog[j].rs)
    IN  /\ Len(owners) = 3
        /\ owners[1].Kind # "Deployment"
        /\ owners[2].Kind = "Deployment"
        /\ owners[3].Kind = "Deployment"
        /\ owners[3].Name # owners[2].Name
        /\ resolveLog[j].err = "none"
        /\ resolveLog[j].name = owners[2].Name

\* C19 witness: the resolver returned an error for a ReplicaSet it fetched
\* whose owner references are not Deployments.
C19_WitnessNoDeployment ==
  \E j \in DOMAIN resolveLog :
    /\ resolveLog[j].outcome = "ok"
    /\ Len(ReplicaSetOwners(resolveLog[j].ctx, resolveLog[j].ns, resolveLog[j].rs)) = 2
    /\ DeploymentRefs(resolveLog[j]) = {}
    /\ resolveLog[j].err = "no deployment found for replicaset"
    /\ resolveLog[j].name = ""

\* C18 witness: the Get call of the display failed for one ReplicaSet and
\* succeeded for another.
C18_WitnessGet ==
  /\ pc = "done"
  /\ err = "none"
  /\ \E j \in DOMAIN resolveLog : resolveLog[j].err = "failed to get replicaset"
  /\ \E j \in DOMAIN resolveLog : resolveLog[j].outcome = "ok"

\* The outcome of the one fan-out call op of this run about context c; "ok"
\* when the run did not issue it.
FanoutOutcome(op, c) ==
  IF \E i \in FanoutCalls : log[i].op = op /\ log[i].ctx = c
  THEN log[CHOOSE i \in FanoutCalls : log[i].op = op /\ log[i].ctx = c].outcome
  ELSE "ok"

\* The outcomes of the list calls of the scopes of context c, in the order
\* this run searched them.
ScopeOutcomesOf(c) ==
  LET OfContext(e) == e.ctx = c
      sel == SelectSeq(scopeLog, OfContext)
  IN  [k \in 1..Len(sel) |-> sel[k].oc[1]]

\* The outcomes of the calls of this run's fan-out.
RunOutcomes ==
  [client |-> [c \in Contexts |-> FanoutOutcome("NewK8sClient", c)],
   nslist |-> [c \in Contexts |-> FanoutOutcome("ListNamespaces", c)],
   scope  |-> [c \in Contexts |-> ScopeOutcomesOf(c)]]

\* What a second run of the search returns when GetContexts gives order and
\* every call has the outcome it had in this run.
SecondRun(order) == SearchAllContexts(mode, order, namespaces, query, RunOutcomes)

Entries(rs) == { rs[k] : k \in DOMAIN rs }

\* C16 as stated: a second run on the same kubeconfig and cluster, with the
\* same call outcomes, returns the same entries in the same order, whatever
\* order GetContexts gives in it.
C16_SecondRunSameList_AsStated ==
  (Returned /\ ~LoadFailed) =>
    \A order \in Permutations2(Contexts) : SecondRun(order) = results

\* C16 as amended: when the search returns, a second run would return the
\* same set of entries whatever order GetContexts gives in it, the entries of each context in the same
\* relative order, and the same list when GetContexts gives the same order.
C16_SecondRunSameSet ==
  (pc = "return" /\ ~LoadFailed) =>
    \A order \in Permutations2(Contexts) :
      LET again == SecondRun(order)
      IN  /\ order = contexts => again = results
          /\ Entries(again) = Entries(results)
          /\ Len(again) = Len(results)
          /\ \A c \in Contexts :
               LET OfContext(e) == e.Context = c
               IN  SelectSeq(again, OfContext) = SelectSeq(results, OfContext)

\* C16 witness: the search has returned entries of both contexts, c2 first,
\* after the search of a scope failed; a second run that visits c1 first
\* returns another list.
C16_Witness ==
  /\ Returned
  /\ ~LoadFailed
  /\ Len(results) >= 2
  /\ results[1].Context = "c2"
  /\ results[Len(results)].Context = "c1"
  /\ \E j \in DOMAIN scopeLog : scopeLog[j].err # "none"
  /\ SecondRun(<<"c1", "c2">>) # results


----------------------------------------------------------------------------
\* The root command's routing, main.go: RunE picks the search from the shape
\* of the argument alone, and the search it picks checks the argument first.
\* What follows the check is the search of Spec.

MaxAddrLen == 4

AddrChars == {"1", "a", "g", ":", "."}

\* The table of TestValidateIP, the README's examples, and the long forms of
\* the colon notation that no short word reaches.
RouteQueries ==
  { <<"1", "9", "2", ".", "1", "6", "8", ".", "1", ".", "1">>,
    <<"1", "2", "7", ".", "0", ".", "0", ".", "1">>,
    <<"2", "0", "0", "1", ":", "d", "b", "8", ":", ":", "1">>,
    <<":", ":", "1">>,
    <<"n", "o", "t", "-", "a", "n", "-", "i", "p">>,
    <<"1", "9", "2", ".", "1", "6", "8">>,
    <<>>,
    <<"2", "5", "6", ".", "2", "5", "6", ".", "2", "5", "6", ".", "2", "5", "6">>,
    <<"n", "g", "i", "n", "x">>,
    <<"1", ":", "2", ":", "3", ":", "4", ":", "5", ":", "6", ":", "7", ":", "8">>,
    <<"1", ":", "2", ":", "3", ":", "4", ":", "5", ":", "6", ":", "7">>,
    <<"1", ":", "2", ":", "3", ":", "4", ":", "5", ":", "6", ":", "7", ":", "8", ":", "9">>,
    <<"1", ":", "2", ":", "3", ":", "4", ":", "5", ":", "6", ":", "7", ":", ":">>,
    <<"1", ":", "2", ":", "3", ":", "4", ":", "5", ":", "6", ":", "7", ":", "8", ":", ":">>,
    <<":", ":", "f", "f", "f", "f", ":", "1", ".", "2", ".", "3", ".", "4">>,
    <<"1", ":", "2", ":", "3", ":", "4", ":", "5", ":", "6", ":", "1", ".", "2", ".", "3", ".", "4">>,
    <<"1", ":", "2", ":", "3", ":", "4", ":", "5", ":", "1", ".", "2", ".", "3", ".", "4">>,
    <<"1", ":", "2", ":", "3", ":", "4", ":", "5", ":", "6", ":", "7", ":", "1", ".", "2", ".", "3", ".", "4">>,
    <<":", ":", "1", ":", "2", ":", "3", ":", "4", ":", "5", ":", "6", ":", "1", ".", "2", ".", "3", ".", "4">>,
    <<"1", ":", ":", "2", ":", ":", "3">>,
    <<"f", "e", "8", "0", ":", ":", "1", "%", "e">>,
    <<"F", "F", "F", "F", ":", ":", "a", "b", "c", "d">>,
    <<":", ":", "1", "2", "3", "4", "5">> }

AddrWords(n) == UNION { [1..k -> AddrChars] : k \in 0..n }

InitRoute ==
  /\ pc = "start"
  /\ mode = "none"
  /\ query \in RouteQueries \cup AddrWords(MaxAddrLen)
  /\ nsFlag \in {<<>>, <<"n1">>}
  /\ contextName = ""
  /\ currentContext = "c1"
  /\ namespaces = <<>>
  /\ contexts = <<>>
  /\ ci = 1
  /\ namespacesToSearch = <<>>
  /\ ni = 1
  /\ results = <<>>
  /\ resultsNil = TRUE
  /\ found = [pods |-> <<>>, services |-> <<>>]
  /\ err = "none"
  /\ log = <<>>
  /\ scopeLog = <<>>
  /\ extraPods = <<>>
  /\ extraSvcs = <<>>
  /\ cancelled = FALSE
  /\ rsOwners = <<Owner("Deployment", "d1")>>
  /\ resolveLog = <<>>
  /\ summary = <<>>

NextRoute ==
  \/ RunE
  \/ CheckQuery

SpecRoute == InitRoute /\ [][NextRoute]_vars


\* The pieces of s between the occurrences of sep, as pairs of the positions
\* that bound them.
PieceBounds(s, sep) ==
  LET at == {0, Len(s) + 1} \cup {k \in DOMAIN s : s[k] = sep}
  IN  { b \in at \X at :
          b[1] < b[2] /\ \A x \in at : ~(b[1] < x /\ x < b[2]) }

Piece(s, b) == SubSeq(s, b[1] + 1, b[2] - 1)

\* A decimal number from 0 to 255 without leading zeros.
IsOctet(t) ==
  /\ Len(t) \in 1..3
  /\ \A k \in DOMAIN t : DigitVal(t[k]) >= 0
  /\ Len(t) > 1 => t[1] # "0"
  /\ Len(t) = 3 =>
       100 * DigitVal(t[1]) + 10 * DigitVal(t[2]) + DigitVal(t[3]) <= 255

\* d.d.d.d
IsIPv4Literal(s) ==
  /\ Cardinality(PieceBounds(s, ".")) = 4
  /\ \A b \in PieceBounds(s, ".") : IsOctet(Piece(s, b))

\* One to four hex digits.
IsHextet(t) == Len(t) \in 1..4 /\ \A k \in DOMAIN t : t[k] \in HexDigits

\* The number of 16-bit groups that t writes as x:x:...:x, where the last
\* piece may be d.d.d.d (two groups) if v4ok; -1 if t is not of that form.
GroupCount(t, v4ok) ==
  IF t = <<>> THEN 0
  ELSE
    LET bs == PieceBounds(t, ":")
        last == CHOOSE b \in bs : b[2] = Len(t) + 1
    IN  IF \A b \in bs : IsHextet(Piece(t, b)) THEN Cardinality(bs)
        ELSE IF /\ v4ok
                /\ IsIPv4Literal(Piece(t, last))
                /\ \A b \in bs \ {last} : IsHextet(Piece(t, b))
        THEN Cardinality(bs) + 1
        ELSE -1

\* The text forms of an IPv6 address: eight groups, or fewer with one "::"
\* that stands for the missing ones, the last two groups possibly written as
\* a dotted quad.
IsIPv6Literal(s) ==
  LET dc == {k \in 1..(Len(s) - 1) : s[k] = ":" /\ s[k + 1] = ":"}
  IN  IF dc = {} THEN GroupCount(s, TRUE) = 8
      ELSE IF Cardinality(dc) > 1 THEN FALSE
      ELSE
        LET k == CHOOSE x \in dc : TRUE
            l == GroupCount(SubSeq(s, 1, k - 1), FALSE)
            r == GroupCount(SubSeq(s, k + 2, Len(s)), TRUE)
        IN  l >= 0 /\ r >= 0 /\ l + r <= 7

IsIPLiteral(s) == IsIPv4Literal(s) \/ IsIPv6Literal(s)

\* C17: the root command routes its argument to the IP search exactly when
\* the argument is a valid IPv4 or IPv6 literal and to the name search
\* otherwise, never to both and never to neither; the IP search then accepts
\* it, and the empty argument goes to the name search, which rejects it.
C17_RoutedByLiteral ==
  pc # "start" =>
    /\ mode \in {"ip", "name"}
    /\ mode = "ip" <=> IsIPLiteral(query)
    /\ (mode = "ip" /\ pc # "cmd") => (pc \in {"discover", "load"} /\ err = "none")
    /\ query = <<>> =>
         /\ mode = "name"
         /\ pc # "cmd" => (pc = "done" /\ err = "name cannot be empty")

\* An IPv6 literal was routed to the IP search and accepted there.
C17_Witness ==
  /\ pc \in {"discover", "load"}
  /\ mode = "ip"
  /\ \E k \in DOMAIN query : query[k] = ":"

\* The empty argument was routed to the name search and rejected there.
C17_WitnessEmpty ==
  /\ pc = "done"
  /\ query = <<>>
  /\ mode = "name"
  /\ err = "name cannot be empty"

\* The contexts of the entries of the result list.
ResultContexts == { results[k].Context : k \in DOMAIN results }

SummaryNumber(label) ==
  LET at == CHOOSE j \in DOMAIN summary : summary[j].label = label
  IN  summary[at].n

SummaryHas(label) == \E j \in DOMAIN summary : summary[j].label = label

\* The totals of pods and services in the summary are the sums over the
\* entries of the result list.
SummaryTotalsAreSums ==
  /\ SummaryHas("Total pods found") =>
       SummaryNumber("Total pods found") =
         Cardinality(UNION { { <<k, i>> : i \in DOMAIN results[k].Pods } :
                               k \in DOMAIN results })
  /\ SummaryHas("Total services found") =>
       SummaryNumber("Total services found") =
         Cardinality(UNION { { <<k, i>> : i \in DOMAIN results[k].Services } :
                               k \in DOMAIN results })

\* C21: the number printed as "Total contexts searched" is the number of
\* distinct contexts searched (those of the entries, or those the fan-out
\* built a client for), and the totals of pods and services are the sums
\* over the entries.
C21_SummaryCounts ==
  summary # <<>> =>
    /\ \/ SummaryNumber("Total contexts searched") = Cardinality(ResultContexts)
       \/ SummaryNumber("Total contexts searched") = Cardinality(BuiltContexts)
    /\ SummaryTotalsAreSums


\* The namespace list the caller gave names no namespace twice.
FlagHasNoDuplicate == \A i, j \in DOMAIN nsFlag : i # j => nsFlag[i] # nsFlag[j]

\* C22: in the list SearchBy...AllContexts returns, each (context, namespace)
\* pair occurs at most once, whatever namespace list the caller gives.
C22_ScopePairsUnique ==
  \A i, j \in DOMAIN results :
    i # j => << results[i].Context, results[i].Namespace >>
               # << results[j].Context, results[j].Namespace >>

\* The pairs are unique when the caller's list names no namespace twice.
ScopePairsUniqueWithoutDuplicate == FlagHasNoDuplicate => C22_ScopePairsUnique


\* C23: every entry of the result list groups matches of one (context,
\* namespace) pair: each of its pods and services has the Namespace of the
\* entry and was listed in that namespace of the entry's context; no match of
\* another namespace searched with the same client is in it.
C23_EntryOfOneScope ==
  \A k \in DOMAIN results :
    LET c == results[k].Context
        ns == results[k].Namespace
    IN  /\ \A i \in DOMAIN results[k].Pods :
             /\ results[k].Pods[i].Namespace = ns
             /\ \E j \in DOMAIN ListedPods(c, ns) :
                  PodInfo(ListedPods(c, ns)[j]) = results[k].Pods[i]
        /\ \A i \in DOMAIN results[k].Services :
             /\ results[k].Services[i].Namespace = ns
             /\ \E j \in DOMAIN ListedSvcs(c, ns) :
                  ServiceInfo(ListedSvcs(c, ns)[j]) = results[k].Services[i]

\* C23 witness: one client has searched two namespaces in turn and both have
\* an entry, the second after the first.
C23_Witness ==
  \E k \in DOMAIN results :
    /\ k > 1
    /\ results[k].Context = results[k - 1].Context
    /\ results[k].Namespace # results[k - 1].Namespace
    /\ Len(results[k].Pods) > 0
    /\ Len(results[k - 1].Pods) > 0
    /\ pc = "return"


\* The namespaces the fan-out has to search in context c, given the outcomes
\* of the calls it issued about c so far.
ResolvedNamespaces(c) ==
  IF FanoutOutcome("NewK8sClient", c) # "ok" THEN <<>>
  ELSE IF Len(namespaces) > 0 THEN namespaces
  ELSE IF FanoutOutcome("ListNamespaces", c) # "ok" THEN <<>>
  ELSE ApiNamespaces(c)

\* The scopes of the resolved list, in order, from context i of this run on.
RECURSIVE ResolvedScopes(_)
ResolvedScopes(i) ==
  IF i > Len(contexts) THEN <<>>
  ELSE [k \in 1..Len(ResolvedNamespaces(contexts[i])) |->
          <<contexts[i], ResolvedNamespaces(contexts[i])[k]>>]
         \o ResolvedScopes(i + 1)

\* The scopes searched so far, in order.
SearchedList == [j \in DOMAIN scopeLog |-> <<scopeLog[j].ctx, scopeLog[j].nss[1]>>]

FanoutCallsOf(op) == { i \in FanoutCalls : log[i].op = op }

\* The searched scopes whose return was appended, in order.
IncludedList ==
  LET Kept(e) == e.err = "none" /\ (Len(e.pods) > 0 \/ Len(e.services) > 0)
      kept == SelectSeq(scopeLog, Kept)
  IN  [j \in DOMAIN kept |-> <<kept[j].ctx, kept[j].nss[1]>>]

SearchOver == pc \in {"return", "done"}

\* Every context is visited at most once and every scope of the resolved list
\* is searched at most once, in the order of the list, each search with one
\* pod list call and at most one service list call, and its return is
\* appended or dropped for good; when the search is over, of a kubeconfig
\* that was loaded for a valid query, every context has been visited and
\* every scope of the resolved list searched.
EachScopeOnce ==
  /\ \A c \in Contexts :
       /\ Cardinality({ i \in FanoutCallsOf("NewK8sClient") : log[i].ctx = c }) <= 1
       /\ Cardinality({ i \in FanoutCallsOf("ListNamespaces") : log[i].ctx = c }) <= 1
  /\ Len(SearchedList) <= Len(ResolvedScopes(1))
  /\ SearchedList = SubSeq(ResolvedScopes(1), 1, Len(SearchedList))
  /\ Cardinality(FanoutCallsOf("ListPods")) = Len(scopeLog)
  /\ Cardinality(FanoutCallsOf("ListServices")) <= Len(scopeLog)
  /\ ResultKeys = IncludedList
  /\ (SearchOver /\ Returned /\ ~LoadFailed) =>
       /\ \A c \in Contexts :
            Cardinality({ i \in FanoutCallsOf("NewK8sClient") : log[i].ctx = c }) = 1
       /\ SearchedList = ResolvedScopes(1)

\* C24: the all-contexts search terminates, and it visits each context once
\* and searches each scope of the resolved list once, retrying no failed
\* call; it returns once all contexts have been visited.
C24_SearchTerminates ==
  /\ <>SearchOver
  /\ []EachScopeOnce
  /\ [][pc' = "return" => ci > Len(contexts)]_vars

\* C24 witness: the search has returned after visiting both contexts, one
\* scope search having failed and another having been appended.
C24_Witness ==
  /\ pc = "return"
  /\ ~LoadFailed
  /\ \A c \in Contexts : \E i \in FanoutCallsOf("NewK8sClient") : log[i].ctx = c
  /\ \E j \in DOMAIN scopeLog : scopeLog[j].err # "none"
  /\ Len(scopeLog) >= 3
  /\ Len(results) >= 1

====
